---- MODULE Spec2Model ----
(***************************************************************************)
(* A model of cocrawler/urls.py: link sanitizing, selective percent        *)
(* decoding, dot-segment removal, url canonicalization, the URL value      *)
(* object and the redirect classifier.                                     *)
(*                                                                         *)
(* A Python str is modelled as a sequence of code points (naturals), so    *)
(* chr(), int(.., 16), upper() and lower() are computed, not assumed.      *)
(* The functions are pure; each specification draws the arguments of one   *)
(* family of functions from a bounded set in its initial states and its    *)
(* actions apply the functions as the code does.                           *)
(***************************************************************************)
EXTENDS Integers, Sequences, FiniteSets, TLC

VARIABLES
    op,        \* the operation applied last ("init" before any)
    text,      \* the first string argument (text, path, link, url)
    safe,      \* the safe-set argument of unquote
    base,      \* the second string argument (urljoin base, redirect target)
    url,       \* a constructed URL object, or NoURL
    next_url,  \* a second constructed URL object, or NoURL
    ret        \* what the operation returned or raised

vars == <<op, text, safe, base, url, next_url, ret>>

----------------------------------------------------------------------------
(* Characters and strings                                                  *)

\* The printable ASCII characters, code points 32..126, in order (the grave
\* accent, 96, is written by name).
Ascii ==
    << " ", "!", "\"", "#", "$", "%", "&", "'", "(", ")", "*", "+", ",", "-",
       ".", "/", "0", "1", "2", "3", "4", "5", "6", "7", "8", "9", ":", ";",
       "<", "=", ">", "?", "@", "A", "B", "C", "D", "E", "F", "G", "H", "I",
       "J", "K", "L", "M", "N", "O", "P", "Q", "R", "S", "T", "U", "V", "W",
       "X", "Y", "Z", "[", "\\", "]", "^", "_", "grave", "a", "b", "c", "d", "e",
       "f", "g", "h", "i", "j", "k", "l", "m", "n", "o", "p", "q", "r", "s",
       "t", "u", "v", "w", "x", "y", "z", "{", "|", "}", "~" >>

\* ord(): the code point of a character written as a one-character string.
IndexIn(table, c) == CHOOSE i \in 1..Len(table) : table[i] = c

Ord(c) ==
    CASE c = "\n" -> 10
      [] c = "\r" -> 13
      [] c = "\t" -> 9
      [] OTHER -> 31 + IndexIn(Ascii, c)

\* A string literal: Str(<<"a", "/">>) is the Python str 'a/'.
Str(s) == [i \in 1..Len(s) |-> Ord(s[i])]

PERCENT == Ord("%")
SLASH == Ord("/")
BACKSLASH == Ord("\\")
DOT == Ord(".")
COLON == Ord(":")
QUESTION == Ord("?")
HASH == Ord("#")
AT == Ord("@")
LBRACKET == Ord("[")
RBRACKET == Ord("]")
SPACE == Ord(" ")
CR == Ord("\r")
LF == Ord("\n")
TAB == Ord("\t")

Min(a, b) == IF a < b THEN a ELSE b

\* s[i:] and s[:n] with Python's 0-based, clamped slices.
From(s, i) == SubSeq(s, Min(i, Len(s)) + 1, Len(s))
Upto(s, n) == SubSeq(s, 1, Min(n, Len(s)))

startswith(s, p) == Len(s) >= Len(p) /\ SubSeq(s, 1, Len(p)) = p
endswith(s, p) == Len(s) >= Len(p) /\ SubSeq(s, Len(s) - Len(p) + 1, Len(s)) = p

\* s.find(p, start): the 0-based index of the first occurrence at or after
\* start, or -1.
OccursAt(s, p, i) == i + Len(p) <= Len(s) /\ SubSeq(s, i + 1, i + Len(p)) = p
find(s, p, start) ==
    IF \E i \in start..(Len(s) - Len(p)) : OccursAt(s, p, i)
    THEN CHOOSE i \in start..(Len(s) - Len(p)) :
            OccursAt(s, p, i) /\ \A j \in start..(i - 1) : ~OccursAt(s, p, j)
    ELSE -1

\* The 1-based position of the first character of s that is in the set cs,
\* or 0: what re.search('[...]', s) finds.
FirstOf(s, cs) ==
    IF \E i \in 1..Len(s) : s[i] \in cs
    THEN CHOOSE i \in 1..Len(s) : s[i] \in cs /\ \A j \in 1..(i - 1) : s[j] \notin cs
    ELSE 0

\* s.replace(old, new, 1): only the first occurrence is replaced.
replace1(s, old, new) ==
    LET i == find(s, old, 0)
    IN IF i < 0 THEN s ELSE SubSeq(s, 1, i) \o new \o From(s, i + Len(old))

\* s.replace(c, new) for a single character c: every occurrence is replaced.
RECURSIVE replaceChar(_, _, _)
replaceChar(s, c, new) ==
    IF s = <<>> THEN <<>>
    ELSE (IF Head(s) = c THEN new ELSE <<Head(s)>>) \o replaceChar(Tail(s), c, new)

\* s.split(sep) for a single character sep: a non-empty list of pieces.
RECURSIVE split(_, _)
split(s, sep) ==
    LET i == find(s, <<sep>>, 0)
    IN IF i < 0 THEN <<s>> ELSE <<SubSeq(s, 1, i)>> \o split(From(s, i + 1), sep)

\* sep.join(list)
RECURSIVE join(_, _)
join(sep, list) ==
    IF list = <<>> THEN <<>>
    ELSE IF Len(list) = 1 THEN list[1]
    ELSE list[1] \o sep \o join(sep, Tail(list))

LOWER_A == Ord("a")
LOWER_Z == Ord("z")
UPPER_A == Ord("A")
UPPER_Z == Ord("Z")
DIGIT_0 == Ord("0")
DIGIT_9 == Ord("9")
IsLower(c) == c >= LOWER_A /\ c <= LOWER_Z
IsUpper(c) == c >= UPPER_A /\ c <= UPPER_Z
IsDigit(c) == c >= DIGIT_0 /\ c <= DIGIT_9
IsAlpha(c) == IsLower(c) \/ IsUpper(c)
upperChar(c) == IF IsLower(c) THEN c - (LOWER_A - UPPER_A) ELSE c
lowerChar(c) == IF IsUpper(c) THEN c + (LOWER_A - UPPER_A) ELSE c
\* str.upper() and str.lower() on ASCII text
upper(s) == [i \in 1..Len(s) |-> upperChar(s[i])]
lower(s) == [i \in 1..Len(s) |-> lowerChar(s[i])]

\* All strings over alphabet of length at most n.
RECURSIVE StringsUpTo(_, _)
StringsUpTo(alphabet, n) ==
    IF n = 0 THEN {<<>>}
    ELSE LET shorter == StringsUpTo(alphabet, n - 1)
         IN shorter \cup {<<c>> \o s : c \in alphabet, s \in {t \in shorter : Len(t) = n - 1}}

\* What a call produced: a value, or the exception it raised.
Returned(v) == [raises |-> "none", value |-> v]
Raised(e) == [raises |-> e, value |-> <<>>]
NoResult == [raises |-> "none", value |-> <<>>]

----------------------------------------------------------------------------
(* Char-class tables                                                       *)

LowerHexDigits == Str(<<"0", "1", "2", "3", "4", "5", "6", "7", "8", "9",
                        "a", "b", "c", "d", "e", "f">>)
UpperHexDigits == upper(LowerHexDigits)

\* '%02x' % i and '%02X' % i
fmt02x(i) == <<LowerHexDigits[(i \div 16) + 1], LowerHexDigits[(i % 16) + 1]>>
fmt02X(i) == <<UpperHexDigits[(i \div 16) + 1], UpperHexDigits[(i % 16) + 1]>>

\* range(a, b) of Python: a .. b-1
range(a, b) == a..(b - 1)

valid_hex == {fmt02x(i) : i \in range(0, 256)} \cup {fmt02X(i) : i \in range(0, 256)}

unreserved ==
    {fmt02X(i) : i \in range(65, 91)}          \* 0x41..0x5a, A-Z
    \cup {fmt02X(i) : i \in range(97, 123)}    \* 0x61..0x7a, a-z
    \cup {fmt02X(i) : i \in range(48, 58)}     \* 0x30..0x39, 0-9
    \cup {Str(<<"2", "D">>), Str(<<"2", "E">>), Str(<<"5", "F">>), Str(<<"7", "E">>)}

subdelims ==
    {Str(<<"2", "1">>), Str(<<"2", "4">>), Str(<<"3", "B">>), Str(<<"3", "D">>)}
    \cup {fmt02X(i) : i \in range(38, 45)}     \* 0x26..0x2c, &'()*+,

unquote_in_path == subdelims \cup {Str(<<"3", "A">>), Str(<<"4", "0">>)}

unquote_in_query ==
    (subdelims \cup {Str(<<"3", "A">>), Str(<<"2", "F">>), Str(<<"3", "F">>), Str(<<"4", "0">>)})
    \ {Str(<<"2", "6">>), Str(<<"3", "D">>)}

unquote_in_frag == unquote_in_query

----------------------------------------------------------------------------
(* Percent-decode engine                                                   *)

IsHexDigit(c) ==
    \E i \in 1..16 : c = LowerHexDigits[i] \/ c = UpperHexDigits[i]

HexValue(c) == IF IsDigit(c) THEN c - DIGIT_0 ELSE upperChar(c) - UPPER_A + 10

\* int(quote, base=16) for a two-digit quote. unquote calls it only for a
\* quote that is in the safe-set, and the safe-sets are two-hex-digit codes.
int16(quote) == HexValue(quote[1]) * 16 + HexValue(quote[2])

\* chr(): a character is its code point.
chr(n) == n

\* quote = quote.upper() for a quote in valid_hex
valid_hex_upper(quote) == IF quote \in valid_hex THEN upper(quote) ELSE quote

\* The decoded character for a quote in the safe-set, the quote kept
\* otherwise; then the rest of the piece.
unquote_quote(acc, quote, rest, safeset) ==
    IF quote \in safeset
    THEN acc \o <<chr(int16(quote))>> \o rest
    ELSE acc \o <<PERCENT>> \o quote \o rest

\* One piece of text.split('%') appended to the text built so far.
unquote_piece(acc, p, safeset) ==
    IF endswith(acc, <<PERCENT>>)
    THEN acc \o <<PERCENT>> \o p
    ELSE unquote_quote(acc, valid_hex_upper(Upto(p, 2)), From(p, 2), safeset)

RECURSIVE unquote_loop(_, _, _)
unquote_loop(acc, pieces, safeset) ==
    IF pieces = <<>> THEN acc
    ELSE unquote_loop(unquote_piece(acc, Head(pieces), safeset), Tail(pieces), safeset)

unquote(t, safeset) ==
    LET pieces == split(t, PERCENT)
    IN unquote_loop(Head(pieces), Tail(pieces), safeset)

----------------------------------------------------------------------------
(* Path normalizer                                                         *)

DotDot == <<DOT, DOT>>
Dot == <<DOT>>
NonEmpty(s) == s # <<>>

\* The loop over segments[1:], with resolved_segments as a stack.
RECURSIVE resolve_segments(_, _)
resolve_segments(resolved, segments) ==
    IF segments = <<>> THEN resolved
    ELSE LET s == Head(segments)
         IN IF s = DotDot
            THEN resolve_segments(IF resolved = <<>> THEN <<>>
                                  ELSE SubSeq(resolved, 1, Len(resolved) - 1),
                                  Tail(segments))
            ELSE IF s = Dot
            THEN resolve_segments(resolved, Tail(segments))
            ELSE resolve_segments(Append(resolved, s), Tail(segments))

\* (a variant that keeps the empty interior segments)
drop_empty_interior_kept(segments) == segments

\* segments[1:-1] = filter(None, segments[1:-1])
drop_empty_interior(segments) ==
    IF Len(segments) < 2 THEN segments
    ELSE <<segments[1]>>
         \o SelectSeq(SubSeq(segments, 2, Len(segments) - 1), NonEmpty)
         \o <<segments[Len(segments)]>>

remove_dot_segments(path) ==
    IF path = <<>> THEN Raised("IndexError")        \* path[0] of ''
    ELSE IF path[1] # SLASH THEN Raised("ValueError")
    ELSE LET segments == drop_empty_interior(split(path, SLASH))
         IN Returned(<<SLASH>> \o join(<<SLASH>>, resolve_segments(<<>>, Tail(segments))))

----------------------------------------------------------------------------
(* Link sanitizer                                                          *)

RunawayLength == 300

HTTP_ == Str(<<"h", "t", "t", "p">>)
HTTPS_ == Str(<<"h", "t", "t", "p", "s">>)
HttpColon == HTTP_ \o <<COLON>>
HttpsColon == HTTPS_ \o <<COLON>>
SchemeSep == <<COLON, SLASH, SLASH>>
SlashSlash == <<SLASH, SLASH>>

is_absolute_url(u) ==
    \/ Upto(u, 2) = SlashSlash
    \/ lower(Upto(u, 7)) = HTTP_ \o SchemeSep
    \/ lower(Upto(u, 8)) = HTTPS_ \o SchemeSep

\* The characters str.strip() is given: 0x00..0x1f and the space.
StripChars == 0..SPACE

\* link.strip(chars)
strip(link, chars) ==
    IF \A i \in 1..Len(link) : link[i] \in chars THEN <<>>
    ELSE LET first == CHOOSE i \in 1..Len(link) :
                         link[i] \notin chars /\ \A j \in 1..(i - 1) : link[j] \in chars
             last == CHOOSE i \in 1..Len(link) :
                         link[i] \notin chars /\ \A j \in (i + 1)..Len(link) : link[j] \in chars
         IN SubSeq(link, first, last)

\* What (?:https?:)? matches at the start of link under re.I.
SchemePrefix(link) ==
    IF lower(Upto(link, 6)) = HttpsColon THEN Upto(link, 6)
    ELSE IF lower(Upto(link, 5)) = HttpColon THEN Upto(link, 5)
    ELSE <<>>

\* The length of the run of character c at the start of s.
RunLength(s, c) ==
    IF \A i \in 1..Len(s) : s[i] = c THEN Len(s)
    ELSE (CHOOSE i \in 1..Len(s) : s[i] # c /\ \A j \in 1..(i - 1) : s[j] = c) - 1

\* re.match(r'(?:https?:)?C{least,}', link, re.I) and the rewrite that
\* follows it: start.rstrip(C) + '//' + link.replace(start, '', 1). The
\* optional scheme is matched whenever it is there: without it the pattern
\* would need link to start with C, and it starts with 'h'.
collapse_run(link, c, least) ==
    LET prefix == SchemePrefix(link)
        run == RunLength(From(link, Len(prefix)), c)
    IN IF run >= least
       THEN prefix \o SlashSlash \o From(link, Len(prefix) + run)
       ELSE link

\* The step as the contract words it: the scan starts just after the scheme
\* separator of the link itself, at offset 2 when the link has no scheme.
ScanAfterOwnSeparator(link) ==
    IF is_absolute_url(link)
    THEN LET start == IF Upto(link, 2) = SlashSlash THEN 2
                      ELSE find(link, SchemeSep, 0) + 3
             rest == From(link, start)
             m == FirstOf(rest, {BACKSLASH, SLASH, QUESTION, HASH})
         IN IF m > 0 /\ rest[m] = BACKSLASH
            THEN Upto(link, start) \o replace1(rest, <<BACKSLASH>>, <<SLASH>>)
            ELSE link
    ELSE link

\* "and the \ that might be after the hostname?"
backslash_after_hostname(link) ==
    IF is_absolute_url(link)
    THEN LET start == find(link, SchemeSep, 0) + 3
             rest == From(link, start)
             m == FirstOf(rest, {BACKSLASH, SLASH, QUESTION, HASH})
         IN IF m > 0 /\ rest[m] = BACKSLASH
            THEN Upto(link, start) \o replace1(rest, <<BACKSLASH>>, <<SLASH>>)
            ELSE link
    ELSE link

\* The characters of [<>\"\'\r\n ]
Terminators == {Ord("<"), Ord(">"), Ord("\""), Ord("'"), CR, LF, SPACE}

\* re.match(r'(.*?)[<>\"\'\r\n ]', link): group 1 is the text before the
\* first terminator ('.' does not match a newline, and the newline is a
\* terminator itself).
truncate_at_terminator(link) ==
    LET m == FirstOf(link, Terminators)
    IN IF m > 0 THEN SubSeq(link, 1, m - 1) ELSE link

\* (a variant that keeps a link still too long after the truncation)
runaway_kept(link) ==
    IF Len(link) > RunawayLength THEN truncate_at_terminator(link) ELSE link

\* The runaway check; '' stands for the early return of ''.
runaway(link) ==
    IF Len(link) > RunawayLength
    THEN LET cut == truncate_at_terminator(link)
         IN IF Len(cut) > RunawayLength THEN <<>> ELSE cut
    ELSE link

NotCR(c) == c # CR
NotLF(c) == c # LF
\* link.replace('\r', '') then link.replace('\n', '')
remove_cr_lf(link) == SelectSeq(SelectSeq(link, NotCR), NotLF)

\* The link after the strip and the two collapses.
after_collapses(link) ==
    collapse_run(collapse_run(strip(link, StripChars), SLASH, 3), BACKSLASH, 2)

\* The early return of '' skips nothing: '' has no CR or LF to remove.
clean_webpage_links(link) ==
    remove_cr_lf(runaway(backslash_after_hostname(after_collapses(link))))

----------------------------------------------------------------------------
(* urllib.parse, as the code calls it (CPython 3.11), on ASCII text        *)
(* without ';' (so urlparse finds no params) and without a bracketed host. *)
(* Each step of a function takes what the steps before it computed.        *)

uses_relative ==
    {Str(w) : w \in
        { <<>>, <<"f", "t", "p">>, <<"h", "t", "t", "p">>, <<"g", "o", "p", "h", "e", "r">>,
          <<"n", "n", "t", "p">>, <<"i", "m", "a", "p">>, <<"w", "a", "i", "s">>,
          <<"f", "i", "l", "e">>, <<"h", "t", "t", "p", "s">>, <<"s", "h", "t", "t", "p">>,
          <<"m", "m", "s">>, <<"p", "r", "o", "s", "p", "e", "r", "o">>,
          <<"r", "t", "s", "p">>, <<"r", "t", "s", "p", "s">>, <<"r", "t", "s", "p", "u">>,
          <<"s", "f", "t", "p">>, <<"s", "v", "n">>, <<"s", "v", "n", "+", "s", "s", "h">>,
          <<"w", "s">>, <<"w", "s", "s">> }}

uses_netloc ==
    {Str(w) : w \in
        { <<>>, <<"f", "t", "p">>, <<"h", "t", "t", "p">>, <<"g", "o", "p", "h", "e", "r">>,
          <<"n", "n", "t", "p">>, <<"t", "e", "l", "n", "e", "t">>, <<"i", "m", "a", "p">>,
          <<"w", "a", "i", "s">>, <<"f", "i", "l", "e">>, <<"m", "m", "s">>,
          <<"h", "t", "t", "p", "s">>, <<"s", "h", "t", "t", "p">>, <<"s", "n", "e", "w", "s">>,
          <<"p", "r", "o", "s", "p", "e", "r", "o">>, <<"r", "t", "s", "p">>,
          <<"r", "t", "s", "p", "s">>, <<"r", "t", "s", "p", "u">>, <<"r", "s", "y", "n", "c">>,
          <<"s", "v", "n">>, <<"s", "v", "n", "+", "s", "s", "h">>, <<"s", "f", "t", "p">>,
          <<"n", "f", "s">>, <<"g", "i", "t">>, <<"g", "i", "t", "+", "s", "s", "h">>,
          <<"w", "s">>, <<"w", "s", "s">> }}

NotUnsafeByte(c) == c \notin {TAB, CR, LF}
IsSchemeChar(c) == IsAlpha(c) \/ IsDigit(c) \/ c \in {Ord("+"), Ord("-"), DOT}

\* str.lstrip(chars)
lstrip(u, chars) ==
    IF \A i \in 1..Len(u) : u[i] \in chars THEN <<>>
    ELSE From(u, (CHOOSE i \in 1..Len(u) :
                     u[i] \notin chars /\ \A j \in 1..(i - 1) : u[j] \in chars) - 1)

\* The 0-based index of the last occurrence of character c in u, or -1.
rfind(u, c) ==
    IF \E i \in 1..Len(u) : u[i] = c
    THEN (CHOOSE i \in 1..Len(u) : u[i] = c /\ \A j \in (i + 1)..Len(u) : u[j] # c) - 1
    ELSE -1

Contains(u, c) == \E i \in 1..Len(u) : u[i] = c

SplitResult(scheme, netloc, path, query, fragment) ==
    [raises |-> "none", scheme |-> scheme, netloc |-> netloc, path |-> path,
     query |-> query, fragment |-> fragment]

SplitFailed(e) ==
    [raises |-> e, scheme |-> <<>>, netloc |-> <<>>, path |-> <<>>,
     query |-> <<>>, fragment |-> <<>>]

\* The scheme step of urlsplit, i being url.find(':'): (scheme, url).
split_scheme(cleaned, i, default_scheme) ==
    IF i > 0 /\ IsAlpha(cleaned[1]) /\ \A k \in 1..i : IsSchemeChar(cleaned[k])
    THEN <<lower(Upto(cleaned, i)), From(cleaned, i + 1)>>
    ELSE <<default_scheme, cleaned>>

\* _splitnetloc(url, 2), delim being the 1-based place of the first of
\* / ? # after the two slashes, or 0: (netloc, url).
splitnetloc_at(after, delim) ==
    IF delim = 0 THEN <<after, <<>>>>
    ELSE <<SubSeq(after, 1, delim - 1), From(after, delim - 1)>>

splitnetloc(u) == splitnetloc_at(From(u, 2), FirstOf(From(u, 2), {SLASH, QUESTION, HASH}))

\* if url[:2] == '//': netloc, url = _splitnetloc(url, 2)
split_netloc(u) == IF Upto(u, 2) = SlashSlash THEN splitnetloc(u) ELSE << <<>>, u >>

\* url.split(c, 1) when c is in url, i being url.find(c): (before, after).
split_at(u, i) == IF i >= 0 THEN <<Upto(u, i), From(u, i + 1)>> ELSE <<u, <<>>>>
split_once(u, c) == split_at(u, find(u, <<c>>, 0))

urlsplit_query(scheme, netloc, path_query, fragment) ==
    SplitResult(scheme, netloc, path_query[1], path_query[2], fragment)

urlsplit_fragment(scheme, netloc, url_fragment) ==
    urlsplit_query(scheme, netloc, split_once(url_fragment[1], QUESTION), url_fragment[2])

urlsplit_netloc(scheme, has_netloc, netloc_url) ==
    IF has_netloc /\ (Contains(netloc_url[1], LBRACKET) # Contains(netloc_url[1], RBRACKET))
    THEN SplitFailed("ValueError")      \* "Invalid IPv6 URL"
    ELSE urlsplit_fragment(scheme, netloc_url[1], split_once(netloc_url[2], HASH))

urlsplit_scheme(scheme_url) ==
    urlsplit_netloc(scheme_url[1], Upto(scheme_url[2], 2) = SlashSlash,
                    split_netloc(scheme_url[2]))

urlsplit_cleaned(cleaned, default_scheme) ==
    urlsplit_scheme(split_scheme(cleaned, find(cleaned, <<COLON>>, 0), default_scheme))

\* urlsplit(url, scheme): scheme is the default when url has none.
urlsplit(u, default_scheme) ==
    urlsplit_cleaned(SelectSeq(lstrip(u, StripChars), NotUnsafeByte), default_scheme)

\* The steps of urlunsplit
with_netloc(scheme, netloc, path) ==
    IF netloc # <<>>
       \/ (scheme # <<>> /\ scheme \in uses_netloc /\ Upto(path, 2) # SlashSlash)
    THEN SlashSlash \o netloc
         \o (IF path # <<>> /\ Upto(path, 1) # <<SLASH>> THEN <<SLASH>> \o path ELSE path)
    ELSE path
with_scheme(scheme, u) == IF scheme # <<>> THEN scheme \o <<COLON>> \o u ELSE u
with_query(u, query) == IF query # <<>> THEN u \o <<QUESTION>> \o query ELSE u
with_fragment(u, fragment) == IF fragment # <<>> THEN u \o <<HASH>> \o fragment ELSE u

urlunsplit(scheme, netloc, path, query, fragment) ==
    with_fragment(with_query(with_scheme(scheme, with_netloc(scheme, netloc, path)), query),
                  fragment)

\* base_parts of urljoin: bpath.split('/') without a last part that is not ''
base_parts(base_split) ==
    IF base_split[Len(base_split)] # <<>>
    THEN SubSeq(base_split, 1, Len(base_split) - 1)
    ELSE base_split

\* segments of urljoin
join_segments(path, bparts) ==
    IF Upto(path, 1) = <<SLASH>> THEN split(path, SLASH)
    ELSE drop_empty_interior(bparts \o split(path, SLASH))

\* resolved_path of urljoin, resolved being the segments after the loop
resolved_path(segments, resolved) ==
    IF segments[Len(segments)] \in {Dot, DotDot} THEN Append(resolved, <<>>) ELSE resolved

\* joined or '/'
or_slash(joined) == IF joined = <<>> THEN <<SLASH>> ELSE joined

joined_segments(segments) ==
    or_slash(join(<<SLASH>>, resolved_path(segments, resolve_segments(<<>>, segments))))

joined_path(bpath, path) == joined_segments(join_segments(path, base_parts(split(bpath, SLASH))))

\* urljoin from "if not path" on, netloc being the netloc chosen before it
urljoin_path(bp, up, netloc) ==
    IF up.path = <<>>
    THEN Returned(urlunsplit(up.scheme, netloc, bp.path,
                             IF up.query = <<>> THEN bp.query ELSE up.query,
                             up.fragment))
    ELSE Returned(urlunsplit(up.scheme, netloc, joined_path(bp.path, up.path),
                             up.query, up.fragment))

\* urljoin after the two urlparse calls
urljoin_parsed(u, bp, up) ==
    IF up.raises # "none" THEN Raised(up.raises)
    ELSE IF up.scheme # bp.scheme \/ up.scheme \notin uses_relative THEN Returned(u)
    ELSE IF up.scheme \in uses_netloc /\ up.netloc # <<>>
    THEN Returned(urlunsplit(up.scheme, up.netloc, up.path, up.query, up.fragment))
    ELSE urljoin_path(bp, up, IF up.scheme \in uses_netloc THEN bp.netloc ELSE up.netloc)

urljoin_base(u, bp) ==
    IF bp.raises # "none" THEN Raised(bp.raises)
    ELSE urljoin_parsed(u, bp, urlsplit(u, bp.scheme))

\* urljoin(base, url); urlparse and urlunparse are urlsplit and urlunsplit
\* here, the params being ''.
urljoin(b, u) ==
    IF b = <<>> THEN Returned(u)
    ELSE IF u = <<>> THEN Returned(b)
    ELSE urljoin_base(u, urlsplit(b, <<>>))

----------------------------------------------------------------------------
(* The host/SURT collaborator (cocrawler/surt.py), from its description:   *)
(* case-fold, default-port removal, netloc to hostname; punycode leaves    *)
(* ASCII hosts as they are.                                                *)

Port80 == Str(<<"8", "0">>)
Port443 == Str(<<"4", "4", "3">>)

\* hostport as (host, port with its ':'), c being the index of its last ':'
host_port(userinfo, hostport, c) ==
    [userinfo |-> userinfo,
     host |-> IF c >= 0 THEN Upto(hostport, c) ELSE hostport,
     port |-> IF c >= 0 THEN From(hostport, c) ELSE <<>>]

\* netloc as (userinfo with its '@', hostport), a being the index of its last '@'
userinfo_hostport(netloc, a) ==
    host_port(Upto(netloc, a + 1), From(netloc, a + 1), rfind(From(netloc, a + 1), COLON))

\* The netloc as (userinfo with its '@', host, port with its ':').
netloc_parts(netloc) == userinfo_hostport(netloc, rfind(netloc, AT))

is_default_port(scheme, port) ==
    \/ scheme = HTTP_ /\ port = <<COLON>> \o Port80
    \/ scheme = HTTPS_ /\ port = <<COLON>> \o Port443

punycanon_parts(scheme, parts) ==
    parts.userinfo \o lower(parts.host)
    \o (IF is_default_port(scheme, parts.port) THEN <<>> ELSE parts.port)

netloc_to_punycanon(scheme, netloc) == punycanon_parts(scheme, netloc_parts(netloc))

hostname_to_punycanon(netloc) == lower(netloc_parts(netloc).host)

WwwDot == Str(<<"w", "w", "w", ".">>)

discard_www_from_hostname(hostname) ==
    IF startswith(hostname, WwwDot) THEN From(hostname, 4) ELSE hostname

----------------------------------------------------------------------------
(* Canonicalizer                                                           *)

CanonFailed(e) == [raises |-> e, url |-> <<>>, frag |-> <<>>]

\* path.replace('\\', '/') on what remove_dot_segments returned
backslashes_replaced(r) ==
    IF r.raises # "none" THEN r
    ELSE Returned(replaceChar(r.value, BACKSLASH, <<SLASH>>))

\* remove_dot_segments(path), then path.replace('\\', '/')
path_normalized(path) == backslashes_replaced(remove_dot_segments(path))

\* The canonical url put together, and the fragment set apart.
\* "fragment is not ''" is read as fragment != '': CPython has one empty str.
canon_unsplit(parts, scheme, normal) ==
    IF normal.raises # "none" THEN CanonFailed(normal.raises)
    ELSE [raises |-> "none",
          url |-> urlunsplit(scheme, netloc_to_punycanon(scheme, parts.netloc),
                             unquote(normal.value, unquote_in_path),
                             unquote(parts.query, unquote_in_query),
                             <<>>),
          frag |-> IF parts.fragment # <<>>
                   THEN <<HASH>> \o unquote(parts.fragment, unquote_in_frag)
                   ELSE <<>>]

\* safe_url_canonicalization after its urlsplit
canon_parts(parts) ==
    IF parts.raises # "none" THEN CanonFailed(parts.raises)
    ELSE canon_unsplit(parts, lower(parts.scheme),
                       path_normalized(IF parts.path = <<>> THEN <<SLASH>> ELSE parts.path))

safe_url_canonicalization(u) == canon_parts(urlsplit(unquote(u, unreserved), <<>>))

----------------------------------------------------------------------------
(* URL value object                                                        *)

NoSplit == SplitResult(<<>>, <<>>, <<>>, <<>>, <<>>)

URLFailed(e) ==
    [ok |-> FALSE, raises |-> e, url |-> <<>>, urlsplit |-> NoSplit, netloc |-> <<>>,
     hostname |-> <<>>, hostname_without_www |-> <<>>, original_frag |-> <<>>]

NoURL == URLFailed("none")

\* The attributes of the object. original_frag <<>> stands for None. The surt
\* key and the registered domain are derived from the finished url by the
\* collaborators and are not part of the model.
URL_attributes(scheme, netloc, hostname, path, query, frag) ==
    [ok |-> TRUE, raises |-> "none",
     url |-> urlunsplit(scheme, netloc, path, query, <<>>),
     urlsplit |-> SplitResult(scheme, netloc, path, query, <<>>),
     netloc |-> netloc,
     hostname |-> hostname,
     hostname_without_www |-> discard_www_from_hostname(hostname),
     original_frag |-> frag]

URL_with_netloc(parts, netloc, frag) ==
    URL_attributes(parts.scheme, netloc, hostname_to_punycanon(netloc),
                   IF parts.path = <<>> THEN <<SLASH>> ELSE parts.path, parts.query, frag)

\* URL.__init__ after urlsplit(url)
URL_from_parts(parts, frag) ==
    IF parts.raises # "none" THEN URLFailed(parts.raises)
    ELSE URL_with_netloc(parts, netloc_to_punycanon(parts.scheme, parts.netloc), frag)

\* URL.__init__ after safe_url_canonicalization(url)
URL_from_canon(canon) ==
    IF canon.raises # "none" THEN URLFailed(canon.raises)
    ELSE URL_from_parts(urlsplit(canon.url, <<>>), canon.frag)

\* URL.__init__ from the canonicalization on: the object built from a
\* resolved url string.
URL_from_resolved(u) == URL_from_canon(safe_url_canonicalization(u))

\* The base-resolution step of URL.__init__: the cleaned link against the
\* base URL object.
resolve_against(link, base_url) ==
    IF startswith(link, HTTP_ \o SchemeSep) \/ startswith(link, HTTPS_ \o SchemeSep)
    THEN Returned(link)
    ELSE IF startswith(link, <<SLASH>>) /\ ~startswith(link, SlashSlash)
    THEN Returned(base_url.urlsplit.scheme \o SchemeSep \o base_url.hostname \o link)
    ELSE urljoin(base_url.url, link)

\* The cleaned link resolved against the base URL object, if there is one.
resolved_link(link, base_url) ==
    IF ~base_url.ok THEN Raised(base_url.raises)
    ELSE resolve_against(link, base_url)

\* URL.__init__ after the base-resolution step
URL_resolved(resolved) ==
    IF resolved.raises # "none" THEN URLFailed(resolved.raises)
    ELSE URL_from_resolved(resolved.value)

\* URL(url, urljoin=b, seed=False); b = '' (or None) is no base. The base is
\* a URL object itself: URL(b).
URL(u, b) ==
    URL_resolved(IF b = <<>> THEN Returned(clean_webpage_links(u))
                 ELSE resolved_link(clean_webpage_links(u),
                                    URL_from_resolved(clean_webpage_links(b))))

----------------------------------------------------------------------------
(* Redirect classifier                                                     *)

Abs(n) == IF n < 0 THEN -n ELSE n

\* The threshold of the length pre-filter: 'www.' and 's'.
LengthSlack == 5

\* The rules after 'same', in the order of the code.
special_redirect_rules(o, n) ==
    LET without_www == replace1(o.url, WwwDot, <<>>)
        next_without_www == replace1(n.url, WwwDot, <<>>)
    IN IF ~endswith(o.url, <<SLASH>>) /\ o.url \o <<SLASH>> = n.url THEN "addslash"
       ELSE IF endswith(o.url, <<SLASH>>) /\ o.url = n.url \o <<SLASH>> THEN "removeslash"
       ELSE IF replace1(o.url, HTTP_, HTTPS_) = n.url THEN "tohttps"
       ELSE IF startswith(o.url, HTTPS_) /\ replace1(o.url, HTTPS_, HTTP_) = n.url THEN "tohttp"
       ELSE IF startswith(o.urlsplit.netloc, WwwDot)
       THEN IF without_www = n.url THEN "tononwww"
            ELSE IF replace1(without_www, HTTP_, HTTPS_) = n.url THEN "tononwww+tohttps"
            ELSE IF startswith(o.url, HTTPS_) /\ replace1(without_www, HTTPS_, HTTP_) = n.url
            THEN "tononwww+tohttp"
            ELSE "None"
       ELSE IF startswith(n.urlsplit.netloc, WwwDot)
       THEN IF o.url = next_without_www THEN "towww"
            ELSE IF next_without_www = replace1(o.url, HTTP_, HTTPS_) THEN "towww+tohttps"
            ELSE IF startswith(o.url, HTTPS_) /\ next_without_www = replace1(o.url, HTTPS_, HTTP_)
            THEN "towww+tohttp"
            ELSE "None"
       ELSE "None"

\* (a variant without the 'same' rule)
special_redirect_without_same(o, n) ==
    IF Abs(Len(o.url) - Len(n.url)) > LengthSlack THEN "None"
    ELSE special_redirect_rules(o, n)

special_redirect(o, n) ==
    IF Abs(Len(o.url) - Len(n.url)) > LengthSlack THEN "None"
    ELSE IF o.url = n.url THEN "same"
    ELSE special_redirect_rules(o, n)

----------------------------------------------------------------------------
(* Specification of the percent-decode engine: unquote(text, safe)         *)

MaxTextLen == 4

UnquoteAlphabet ==
    {PERCENT, Ord("4"), Ord("1"), Ord("2"), Ord("5"), Ord("a"), Ord("B"), Ord("x")}

\* Safe-sets of uppercase two-hex-digit codes: none, the program's
\* unreserved table, one code with two letters, and one holding '%' itself.
SafeSets ==
    { {}, unreserved, {Str(<<"A", "B">>)}, {Str(<<"2", "5">>), Str(<<"4", "1">>)} }

InitUnquote ==
    /\ op = "init"
    /\ text \in StringsUpTo(UnquoteAlphabet, MaxTextLen)
    /\ safe \in SafeSets
    /\ base = <<>>
    /\ url = NoURL
    /\ next_url = NoURL
    /\ ret = NoResult

Unquote ==
    /\ op = "init"
    /\ op' = "unquote"
    /\ ret' = Returned(unquote(text, safe))
    /\ UNCHANGED <<text, safe, base, url, next_url>>

NextUnquote == Unquote

SpecUnquote == InitUnquote /\ [][NextUnquote]_vars

\* The single forward pass of the contract: a '%' followed by two hex digits
\* is a triplet, decoded when its uppercased pair is in the safe-set and
\* otherwise kept with its pair in uppercase; anything else is copied, and
\* what was emitted is never read again.
RECURSIVE ForwardPass(_, _)
ForwardPass(t, safeset) ==
    IF t = <<>> THEN <<>>
    ELSE IF t[1] = PERCENT /\ Len(t) >= 3 /\ IsHexDigit(t[2]) /\ IsHexDigit(t[3])
    THEN LET XX == upper(<<t[2], t[3]>>)
         IN (IF XX \in safeset THEN <<chr(int16(XX))>> ELSE <<PERCENT>> \o XX)
            \o ForwardPass(From(t, 3), safeset)
    ELSE <<t[1]>> \o ForwardPass(Tail(t), safeset)

\* Some '%XX' of t, at any position, has its uppercased pair in the safe-set.
HasDecodable(t, safeset) ==
    \E i \in 1..(Len(t) - 2) :
        /\ t[i] = PERCENT
        /\ IsHexDigit(t[i + 1])
        /\ IsHexDigit(t[i + 2])
        /\ upper(<<t[i + 1], t[i + 2]>>) \in safeset

\* C2: unquote returns without error, and its result is the forward pass of
\* the text: every triplet whose uppercased pair is in the safe-set is
\* decoded, every other triplet stays percent-encoded (in either letter
\* case), a lone '%' or a malformed pair is copied, and nothing decoded is
\* decoded again.
C2_UnquoteIsForwardPass ==
    op = "unquote" =>
        /\ ret.raises = "none"
        /\ upper(ret.value) = upper(ForwardPass(text, safe))

\* C3: when no triplet of the text is decodable, unquote returns the text
\* with the hex digits of every valid triplet (lower, upper or mixed case)
\* in uppercase.
C3_RetainedHexIsUppercase ==
    (op = "unquote" /\ ~HasDecodable(text, safe)) =>
        ret.value = ForwardPass(text, safe)

----------------------------------------------------------------------------
(* Specification of the path normalizer: remove_dot_segments(path)         *)

MaxPathLen == 7

PathAlphabet == {SLASH, DOT, Ord("a"), Ord("b")}

InitPath ==
    /\ op = "init"
    /\ text \in StringsUpTo(PathAlphabet, MaxPathLen)
    /\ safe = {}
    /\ base = <<>>
    /\ url = NoURL
    /\ next_url = NoURL
    /\ ret = NoResult

RemoveDotSegments ==
    /\ op = "init"
    /\ op' = "remove_dot_segments"
    /\ ret' = remove_dot_segments(text)
    /\ UNCHANGED <<text, safe, base, url, next_url>>

NextPath == RemoveDotSegments

SpecPath == InitPath /\ [][NextPath]_vars

\* Dot-segment resolution read from the right: a '..' cancels the nearest
\* segment before it that is neither '.', '..' nor already cancelled, and a
\* '..' with nothing left to cancel is dropped. pending counts the '..'
\* seen so far that have not cancelled anything yet.
RECURSIVE CancelFromRight(_, _)
CancelFromRight(segments, pending) ==
    IF segments = <<>> THEN <<>>
    ELSE LET s == segments[Len(segments)]
             front == SubSeq(segments, 1, Len(segments) - 1)
         IN IF s = DotDot THEN CancelFromRight(front, pending + 1)
            ELSE IF s = Dot THEN CancelFromRight(front, pending)
            ELSE IF pending > 0 THEN CancelFromRight(front, pending - 1)
            ELSE Append(CancelFromRight(front, 0), s)

\* The segments of a path after its leading '/', without the empty ones
\* that are not the last.
MeaningfulSegments(path) ==
    LET segs == Tail(split(path, SLASH))
    IN SelectSeq(SubSeq(segs, 1, Len(segs) - 1), NonEmpty) \o <<segs[Len(segs)]>>

\* C4: for a path that starts with '/', remove_dot_segments returns a path
\* that starts with '/', has no '.' or '..' segment and no '//', ends with
\* '/' when the input does, and is the stack evaluation of the segments in
\* which '..' removes the last resolved segment or nothing.
C4_DotSegmentsResolved ==
    (op = "remove_dot_segments" /\ startswith(text, <<SLASH>>)) =>
        /\ ret.raises = "none"
        /\ startswith(ret.value, <<SLASH>>)
        /\ LET segs == split(ret.value, SLASH)
           IN \A i \in 2..Len(segs) : segs[i] # Dot /\ segs[i] # DotDot
        /\ find(ret.value, <<SLASH, SLASH>>, 0) = -1
        /\ (endswith(text, <<SLASH>>) => endswith(ret.value, <<SLASH>>))
        /\ ret.value = <<SLASH>> \o join(<<SLASH>>, CancelFromRight(MeaningfulSegments(text), 0))

\* A path with a '..' above the root, a repeated slash and a trailing slash
\* has been normalized.
C4_Witness ==
    /\ op = "remove_dot_segments"
    /\ text = Str(<<"/", ".", ".", "/", "/", "a", "/">>)
    /\ ret = Returned(Str(<<"/", "a", "/">>))

\* C8: for a path that does not start with '/', the empty path included,
\* remove_dot_segments raises the ValueError and returns nothing.
C8_InvalidPathIsValueError ==
    (op = "remove_dot_segments" /\ ~startswith(text, <<SLASH>>)) =>
        ret = Raised("ValueError")

----------------------------------------------------------------------------
(* Specification of the link sanitizer on short links                      *)

MaxLinkLen == 6

LinkPrefixes ==
    { <<>>, HttpColon, upper(HttpsColon), <<SPACE>> \o HttpColon, <<TAB, SLASH>> }

LinkAlphabet == {SLASH, BACKSLASH, COLON, QUESTION, Ord("h")}

InitLink ==
    /\ op = "init"
    /\ text \in {p \o b : p \in LinkPrefixes, b \in StringsUpTo(LinkAlphabet, MaxLinkLen)}
    /\ safe = {}
    /\ base = <<>>
    /\ url = NoURL
    /\ next_url = NoURL
    /\ ret = NoResult

CleanWebpageLinks ==
    /\ op = "init"
    /\ op' = "clean_webpage_links"
    /\ ret' = Returned(clean_webpage_links(text))
    /\ UNCHANGED <<text, safe, base, url, next_url>>

NextLink == CleanWebpageLinks

SpecLink == InitLink /\ [][NextLink]_vars

\* C5: for a link that is absolute after the strip and the two collapses,
\* the scan for the first of \ / ? # starts just after the link's own scheme
\* separator (offset 2 without a scheme, also when '://' occurs later); a
\* backslash found first is the one occurrence replaced, and otherwise the
\* step changes nothing.
C5_ScanStartsAfterOwnSeparator ==
    (op = "clean_webpage_links" /\ is_absolute_url(after_collapses(text))) =>
        ret.value = remove_cr_lf(runaway(ScanAfterOwnSeparator(after_collapses(text))))

----------------------------------------------------------------------------
(* Specification of the link sanitizer on runaway links                    *)

\* A link is head + 'a' * n + tail, with n within RunawayMargin of the
\* threshold and a tail of at most MaxTailLen characters.
RunawayMargin == 2
MaxTailLen == 2

RunawayHeads ==
    { <<>>, <<SPACE>>, HTTP_ \o SchemeSep \o Str(<<"h">>) \o <<BACKSLASH>>, <<SLASH, SLASH, SLASH>> }

TailAlphabet == {Ord("a"), SPACE, LF, CR, Ord("<")}

Filler(n) == [i \in 1..n |-> Ord("a")]

InitRunaway ==
    /\ op = "init"
    /\ text \in {h \o Filler(n) \o t :
                    h \in RunawayHeads,
                    n \in (RunawayLength - RunawayMargin)..(RunawayLength + RunawayMargin),
                    t \in StringsUpTo(TailAlphabet, MaxTailLen)}
    /\ safe = {}
    /\ base = <<>>
    /\ url = NoURL
    /\ next_url = NoURL
    /\ ret = NoResult

CleanRunawayLink ==
    /\ op = "init"
    /\ op' = "clean_webpage_links"
    /\ ret' = Returned(clean_webpage_links(text))
    /\ UNCHANGED <<text, safe, base, url, next_url>>

NextRunaway == CleanRunawayLink

SpecRunaway == InitRunaway /\ [][NextRunaway]_vars

\* The link after steps 1 to 4.
BeforeRunawayCheck(link) == backslash_after_hostname(after_collapses(link))

\* The text before the first of < > " ' CR LF space, or all of it.
BeforeFirstTerminator(link) ==
    IF \E i \in 1..Len(link) : link[i] \in Terminators
    THEN SubSeq(link, 1, (CHOOSE i \in 1..Len(link) :
                             link[i] \in Terminators
                             /\ \A j \in 1..(i - 1) : link[j] \notin Terminators) - 1)
    ELSE link

\* C6: clean_webpage_links returns a string of at most 300 characters with
\* no CR or LF; a link longer than 300 after steps 1 to 4 is cut at its first
\* terminator, and the result is '' when the cut link is still longer than
\* 300, in particular when there is no terminator.
C6_NoRunawayLink ==
    op = "clean_webpage_links" =>
        /\ ret.raises = "none"
        /\ Len(ret.value) <= RunawayLength
        /\ \A i \in 1..Len(ret.value) : ret.value[i] # CR /\ ret.value[i] # LF
        /\ LET link == BeforeRunawayCheck(text)
               cut == BeforeFirstTerminator(link)
           IN Len(link) > RunawayLength =>
                 /\ (Len(cut) > RunawayLength => ret.value = <<>>)
                 /\ (Len(cut) <= RunawayLength => ret.value = cut)

\* A link longer than 300 with no terminator has been answered with ''.
C6_Witness ==
    /\ op = "clean_webpage_links"
    /\ Len(BeforeRunawayCheck(text)) > RunawayLength
    /\ \A i \in 1..Len(text) : text[i] \notin Terminators
    /\ ret = Returned(<<>>)

----------------------------------------------------------------------------
(* Specification of URL construction, without and with a base              *)

MaxUrlTailLen == 4

\* What a raw string starts with: a scheme and host, the same in capitals
\* with the default port, or nothing (a path or a relative link).
UrlPrefixes ==
    { HTTP_ \o SchemeSep \o Str(<<"h">>),
      upper(HTTP_ \o SchemeSep \o Str(<<"h">>)) \o <<COLON>> \o Port80,
      <<>> }

UrlAlphabet == {SLASH, BACKSLASH, DOT, PERCENT, Ord("4"), Ord("1"), Ord("a")}

\* The base strings: none, a plain one, one with a port that is not the
\* default, and one with userinfo.
Bases ==
    { <<>>,
      HTTPS_ \o SchemeSep \o Str(<<"h", "/", "a">>),
      HTTP_ \o SchemeSep \o Str(<<"h", ":", "8", "0", "8", "0", "/", "a", "/", "b">>),
      HTTP_ \o SchemeSep \o Str(<<"u", "@", "h", "/">>) }

Init ==
    /\ op = "init"
    /\ text \in {p \o t : p \in UrlPrefixes, t \in StringsUpTo(UrlAlphabet, MaxUrlTailLen)}
    /\ safe = {}
    /\ base \in Bases
    /\ url = NoURL
    /\ next_url = NoURL
    /\ ret = NoResult

\* URL(text)
NewURL ==
    /\ op = "init"
    /\ base = <<>>
    /\ op' = "URL"
    /\ url' = URL(text, <<>>)
    /\ UNCHANGED <<text, safe, base, next_url, ret>>

\* URL(text, urljoin=base)
NewURLWithBase ==
    /\ op = "init"
    /\ base # <<>>
    /\ op' = "URL_urljoin"
    /\ url' = URL(text, base)
    /\ UNCHANGED <<text, safe, base, next_url, ret>>

\* URL(url.url), for a url constructed without a base
NewURLFromURL ==
    /\ op = "URL"
    /\ url.ok
    /\ op' = "URL_from_url"
    /\ next_url' = URL(url.url, <<>>)
    /\ UNCHANGED <<text, safe, base, url, ret>>

Next == NewURL \/ NewURLWithBase \/ NewURLFromURL

Spec == Init /\ [][Next]_vars

\* C1: a URL constructed from the .url of a constructed URL has the same
\* .url.
C1_ConstructionIsIdempotent ==
    op = "URL_from_url" => (next_url.ok /\ next_url.url = url.url)

\* The URL object that full relative-reference resolution of the cleaned
\* link against the base's canonical url gives.
FullyResolved(link, b) ==
    LET base_url == URL(b, <<>>)
        joined == urljoin(base_url.url, clean_webpage_links(link))
    IN IF ~base_url.ok THEN URLFailed(base_url.raises)
       ELSE IF joined.raises # "none" THEN URLFailed(joined.raises)
       ELSE URL_from_resolved(joined.value)

ExactlyOneSlash(link) == startswith(link, <<SLASH>>) /\ ~startswith(link, SlashSlash)

\* C9: for a cleaned link that starts with exactly one '/', the URL built
\* through the fast path has the .url that full resolution of the link
\* against the base gives.
C9_FastPathIsFullResolution ==
    (/\ op = "URL_urljoin"
     /\ ExactlyOneSlash(clean_webpage_links(text))
     /\ url.ok
     /\ FullyResolved(text, base).ok)
        => url.url = FullyResolved(text, base).url

----------------------------------------------------------------------------
(* Specification of the redirect classifier                                *)

MaxRedirectPathLen == 2

RedirectSchemes == {HTTP_, HTTPS_, Str(<<"f", "t", "p">>)}
RedirectHosts == {Str(<<"h">>), WwwDot \o Str(<<"h">>)}
RedirectPaths ==
    {p \in StringsUpTo({SLASH, Ord("a")}, MaxRedirectPathLen) : p = <<>> \/ p[1] = SLASH}
    \cup {<<SLASH>> \o HTTP_, <<SLASH>> \o HTTPS_}

RedirectStrings ==
    {s \o SchemeSep \o h \o p : s \in RedirectSchemes, h \in RedirectHosts, p \in RedirectPaths}

InitRedirect ==
    /\ op = "init"
    /\ text \in RedirectStrings
    /\ safe = {}
    /\ base \in RedirectStrings
    /\ url = NoURL
    /\ next_url = NoURL
    /\ ret = NoResult

\* url = URL(text); next_url = URL(base)
ConstructPair ==
    /\ op = "init"
    /\ op' = "URLs"
    /\ url' = URL(text, <<>>)
    /\ next_url' = URL(base, <<>>)
    /\ UNCHANGED <<text, safe, base, ret>>

\* special_redirect(url, next_url)
SpecialRedirect ==
    /\ op = "URLs"
    /\ url.ok
    /\ next_url.ok
    /\ op' = "special_redirect"
    /\ ret' = Returned(special_redirect(url, next_url))
    /\ UNCHANGED <<text, safe, base, url, next_url>>

NextRedirect == ConstructPair \/ SpecialRedirect

SpecRedirect == InitRedirect /\ [][NextRedirect]_vars

\* A string of a scheme and a host only: no path, query or fragment.
HostOnly(t) ==
    LET parts == urlsplit(t, <<>>)
    IN /\ parts.raises = "none"
       /\ parts.netloc # <<>>
       /\ parts.path = <<>>
       /\ ~Contains(t, QUESTION)
       /\ ~Contains(t, HASH)

AfterScheme(u) == From(u.url, Len(u.urlsplit.scheme))

\* C10: the label tohttps is given only from an http origin to an https
\* destination that is the same after the scheme, and tohttp only from an
\* https origin to an http destination that is the same after the scheme.
C10_SchemeLabelsAreSound ==
    op = "special_redirect" =>
        /\ ret.value = "tohttps" =>
              /\ url.urlsplit.scheme = HTTP_
              /\ next_url.urlsplit.scheme = HTTPS_
              /\ AfterScheme(url) = AfterScheme(next_url)
        /\ ret.value = "tohttp" =>
              /\ url.urlsplit.scheme = HTTPS_
              /\ next_url.urlsplit.scheme = HTTP_
              /\ AfterScheme(url) = AfterScheme(next_url)

====
